---- MODULE Spec2Model ----
(***************************************************************************)
(* Blue Waters backend: the alert generation and advisory pipeline of      *)
(* main.py (get_alerts, check_water_quality_alerts,                        *)
(* check_health_risk_alerts, query_watsonx, get_bearer_token), the         *)
(* retrieval handlers next to it, and Alert.__init__ of models.py.         *)
(*                                                                         *)
(* Every handler is an `async def` that never awaits: the event loop runs  *)
(* one handler to completion before it starts the next, so the requests of *)
(* one process form a sequence.  The only points where the environment     *)
(* acts inside a handler are the two blocking outbound calls of            *)
(* query_watsonx; an action of the model is the code that runs from one    *)
(* such point to the next.                                                 *)
(*                                                                         *)
(* Python values: a dict is a function on its keys, a list a sequence, an  *)
(* f-string the sequence of its fragments, None the string "None".  A      *)
(* float is modelled by an integer and formatted by FloatStr.  The fields  *)
(* no handler reads (Metric.id, safeRange, icon, Disease.id, description,  *)
(* WaterSource.location, type, Alert.timestamp) are left out.              *)
(***************************************************************************)
EXTENDS Integers, Sequences, FiniteSets, TLC

VARIABLES
    water_sources,   \* data.water_sources, the process-wide list
    loaded,          \* the list as data.py built it at import (never written)
    reqNo,           \* number of requests the process has started
    budget,          \* number of requests the behaviour serves
    handler,         \* the endpoint function of the current request
    pc,              \* "idle" | "token" | "completion" | "done"
    frame,           \* the locals of get_alerts and of the classifier it runs
    prompt,          \* query_watsonx's argument
    token,           \* query_watsonx's local `token`
    outbound,        \* the outbound calls the current request has sent
    token_reply,     \* what requests.post returned or raised at line 45,
                     \* kept until the completion request has its reply
    completion_reply,\* what requests.post returned or raised at line 84,
                     \* kept until query_watsonx is entered again
    response,        \* what the handler returned or raised to the framework
    uuid_calls       \* calls of uuid.uuid4 during the current request

vars == <<water_sources, loaded, reqNo, budget, handler, pc, frame, prompt, token, outbound,
          token_reply, completion_reply, response, uuid_calls>>

(***************************************************************************)
(* Bounds of the model.                                                    *)
(***************************************************************************)
MaxEntries == 3        \* metrics plus diseases of the data set (Spec)
MaxRepeatEntries == 2  \* the same, where requests repeat (SpecRepeat)
MaxRequests == 2       \* requests served in one behaviour of SpecRepeat

(***************************************************************************)
(* Program constants.                                                      *)
(***************************************************************************)
HTTP_OK == 200
INTERNAL_SERVER_ERROR == 500
NOT_FOUND == 404

NoneVal == "None"
EmptyDict == [k \in {} |-> k]
FALLBACK == "No response from AI."

\* dict.get(key, default)
Get(d, key, default) == IF key \in DOMAIN d THEN d[key] ELSE default

\* str(float) of the values the fixture holds
FloatStr(v) == IF v = 20 THEN "20.0" ELSE "0.0"

\* ', '.join(parts), as the sequence of its fragments
RECURSIVE Join(_)
Join(parts) ==
    IF Len(parts) <= 1 THEN parts
    ELSE <<Head(parts), ", ">> \o Join(Tail(parts))

(***************************************************************************)
(* The data fixture (data.py is not among the sources): every list of      *)
(* sources, one per identity at most and in the identities' order, that    *)
(* holds at most MaxEntries metrics and diseases in total.                 *)
(***************************************************************************)
SourceIdentities ==
    << [id |-> "src-1", name |-> "River"], [id |-> "src-2", name |-> "Well"] >>

MaxSources == Len(SourceIdentities)

MetricStatuses == {"safe", "warning", "danger"}
RiskLevels == {"low", "medium", "high"}

MetricPool ==
    { [name |-> "Lead", value |-> 20, unit |-> "ug/L", status |-> s] :
        s \in MetricStatuses }

DiseasePool ==
    { [name |-> "Cholera", riskLevel |-> l,
       causedBy |-> <<"E. coli", "Turbidity">>] : l \in RiskLevels }

SeqsOfLen(S, n) == [1..n -> S]
SeqsUpTo(S, n) == UNION { SeqsOfLen(S, k) : k \in 0..n }

SourcesAt(p, room) ==
    UNION { { [id |-> SourceIdentities[p].id, name |-> SourceIdentities[p].name,
               metrics |-> ms, diseases |-> ds] :
                 ms \in SeqsOfLen(MetricPool, m),
                 ds \in SeqsUpTo(DiseasePool, room - m) } : m \in 0..room }

RECURSIVE DataSets(_, _)
DataSets(p, room) ==
    {<<>>} \cup
    IF p > MaxSources THEN {}
    ELSE UNION { { <<s>> \o rest :
                     rest \in DataSets(p + 1,
                                room - Len(s.metrics) - Len(s.diseases)) } :
                 s \in SourcesAt(p, room) }

(***************************************************************************)
(* What a call returns or raises, and what requests.post gives back.       *)
(***************************************************************************)
Return(v) == [kind |-> "return", value |-> v]
Raise(e)  == [kind |-> "raise", exc |-> e]

HTTPException(code, text) ==
    [type |-> "HTTPException", status_code |-> code, detail |-> text]
\* an exception of requests.exceptions that nothing catches
RequestException(name) == [type |-> "RequestException", name |-> name]

HttpReply(status, body) ==
    [kind |-> "response", status_code |-> status, json |-> body]
NetworkError(name) == [kind |-> "exception", exc |-> name]
NoReply == [kind |-> "none"]
NoResponse == [kind |-> "none"]

NetworkErrors == {"ConnectionError", "Timeout"}

TokenReplies ==
    { HttpReply(HTTP_OK, b) : b \in {[access_token |-> "iam-token"], EmptyDict} }
    \cup { HttpReply(401, EmptyDict) }
    \cup { NetworkError(e) : e \in NetworkErrors }

Choice(text) == [message |-> [content |-> text]]

CompletionBodies ==
    { EmptyDict,
      [choices |-> <<>>],
      [choices |-> <<EmptyDict>>],
      [choices |-> <<[message |-> EmptyDict]>>],
      [choices |-> <<Choice("Boil the water.")>>],
      [choices |-> <<Choice("Boil the water."), Choice("Use a filter.")>>] }

CompletionReplies ==
    { HttpReply(HTTP_OK, b) : b \in CompletionBodies }
    \cup { HttpReply(503, EmptyDict) }
    \cup { NetworkError(e) : e \in NetworkErrors }

Queries == { <<"Is water with 20 mg/L nitrate safe to drink?">> }

TokenCall == [call |-> "token"]
CompletionCall(p) == [call |-> "completion", prompt |-> p]

\* (faulty variant) get_bearer_token without its raise: a refused exchange
\* yields no token
get_bearer_token_lenient(reply) ==
    IF reply.kind = "exception"
    THEN Raise(RequestException(reply.exc))
    ELSE IF reply.status_code = HTTP_OK
         THEN Return(Get(reply.json, "access_token", NoneVal))
         ELSE Return(NoneVal)

(***************************************************************************)
(* get_bearer_token, lines 45-53, on the reply of the identity provider.   *)
(* requests.post's own exceptions are not caught there.                    *)
(***************************************************************************)
get_bearer_token(reply) ==
    IF reply.kind = "exception"
    THEN Raise(RequestException(reply.exc))
    ELSE IF reply.status_code = HTTP_OK
         THEN Return(Get(reply.json, "access_token", NoneVal))
         ELSE Raise(HTTPException(INTERNAL_SERVER_ERROR,
                                  <<"Failed to authenticate with WatsonX">>))

\* Response.raise_for_status raises HTTPError on a 4xx or 5xx status
IsErrorStatus(status) == status >= 400 /\ status < 600

\* (faulty variant) query_watsonx indexing choices[0] without the `if choices` test
query_watsonx_result_unchecked(reply) ==
    IF reply.kind = "exception"
    THEN Raise(HTTPException(INTERNAL_SERVER_ERROR,
                             <<"Request failed: ", reply.exc>>))
    ELSE IF IsErrorStatus(reply.status_code)
    THEN Raise(HTTPException(INTERNAL_SERVER_ERROR,
                             <<"Request failed: ", "HTTPError">>))
    ELSE LET choices == Get(reply.json, "choices", <<>>)
         IN  IF choices # <<>>
             THEN Return(Get(Get(choices[1], "message", EmptyDict),
                             "content", FALLBACK))
             ELSE Raise([type |-> "IndexError"])

(***************************************************************************)
(* query_watsonx, lines 83-98, on the reply of the completion endpoint.    *)
(***************************************************************************)
query_watsonx_result(reply) ==
    IF reply.kind = "exception"
    THEN Raise(HTTPException(INTERNAL_SERVER_ERROR,
                             <<"Request failed: ", reply.exc>>))
    ELSE IF IsErrorStatus(reply.status_code)
    THEN Raise(HTTPException(INTERNAL_SERVER_ERROR,
                             <<"Request failed: ", "HTTPError">>))
    ELSE LET choices == Get(reply.json, "choices", <<>>)
         IN  IF choices # <<>>
             THEN Return(Get(Get(choices[1], "message", EmptyDict),
                             "content", FALLBACK))
             ELSE Return(FALLBACK)

(***************************************************************************)
(* Alert.__init__ of models.py: an id is generated unless one is given.    *)
(* uuid4 draws a value it has not returned before; the n-th value drawn    *)
(* during request r is written <<r, n>>.                                   *)
(***************************************************************************)
Uuid4 == <<reqNo, uuid_calls + 1>>

\* (faulty variant) Alert with the id drawn once, as a class-level default
AlertSharedId(data) ==
    IF "id" \in DOMAIN data THEN data ELSE ("id" :> <<0, 0>>) @@ data

Alert(data) ==
    IF "id" \in DOMAIN data THEN data ELSE ("id" :> Uuid4) @@ data

(***************************************************************************)
(* check_water_quality_alerts, lines 146-170: the branch a metric takes,   *)
(* the prompt it sends and the Alert it builds.                            *)
(***************************************************************************)
\* (faulty variant) the classifier without its elif branch
MetricBranchDangerOnly(metric) ==
    IF metric.status = "danger" THEN "danger" ELSE "skip"

MetricBranch(metric) ==
    IF metric.status = "danger" THEN "danger"
    ELSE IF metric.status = "warning" THEN "warning"
    ELSE "skip"

MetricPrompt(metric) ==
    IF MetricBranch(metric) = "danger"
    THEN <<"Provide advice for high ", metric.name, " level (",
           FloatStr(metric.value), " ", metric.unit, ")">>
    ELSE <<"Provide advice for warning ", metric.name, " level (",
           FloatStr(metric.value), " ", metric.unit, ")">>

MetricAlert(source, metric, ai_advice) ==
    IF MetricBranch(metric) = "danger"
    THEN [message |-> <<metric.name, " is ", FloatStr(metric.value), " ",
                        metric.unit,
                        ", which is outside the safe range. Blue Waters AI Advice: ",
                        ai_advice>>,
          source |-> source.name, level |-> "critical",
          metric |-> metric.name, value |-> metric.value, unit |-> metric.unit]
    ELSE [message |-> <<metric.name,
                        " is approaching unsafe levels, currently ",
                        FloatStr(metric.value), " ", metric.unit,
                        ". Blue Waters AI Advice: ", ai_advice>>,
          source |-> source.name, level |-> "warning",
          metric |-> metric.name, value |-> metric.value, unit |-> metric.unit]

(***************************************************************************)
(* check_health_risk_alerts, lines 177-201.                                *)
(***************************************************************************)
\* (faulty variant) the classifier with an else in place of its elif
DiseaseBranchAnyRisk(disease) ==
    IF disease.riskLevel = "high" THEN "high" ELSE "medium"

DiseaseBranch(disease) ==
    IF disease.riskLevel = "high" THEN "high"
    ELSE IF disease.riskLevel = "medium" THEN "medium"
    ELSE "skip"

DiseasePrompt(disease) ==
    IF DiseaseBranch(disease) = "high"
    THEN <<"Provide advice for high health risk from ", disease.name>>
    ELSE <<"Provide advice for medium health risk from ", disease.name>>

DiseaseAlert(source, disease, ai_advice) ==
    IF DiseaseBranch(disease) = "high"
    THEN [message |-> <<"Health risk: ", disease.name,
                        ". This water source poses a high health risk due to ">>
                      \o Join(disease.causedBy)
                      \o <<". Blue Waters AI Advice: ", ai_advice>>,
          source |-> source.name, level |-> "critical",
          metric |-> disease.name, value |-> 0, unit |-> ""]
    ELSE [message |-> <<"Health risk: ", disease.name,
                        ". Moderate health risk detected. Take necessary precautions. Blue Waters AI Advice: ",
                        ai_advice>>,
          source |-> source.name, level |-> "warning",
          metric |-> disease.name, value |-> 0, unit |-> ""]

(***************************************************************************)
(* get_alerts and the two classifiers it calls, lines 131-140, 145-146,    *)
(* 171, 176-177 and 202.  The frame holds get_alerts's locals (alerts,     *)
(* water_quality_alerts, health_risk_alerts, the position si of `source`)  *)
(* and those of the classifier that is running (its own `alerts`, here     *)
(* local, and the position idx of its loop variable).                      *)
(***************************************************************************)
NoFrame ==
    [si |-> 0, phase |-> "none", idx |-> 0, alerts |-> <<>>,
     water_quality_alerts |-> <<>>, health_risk_alerts |-> <<>>,
     local |-> <<>>]

\* line 131, and the first iteration of line 132 entering line 134
EnterAlerts ==
    [si |-> 1, phase |-> "metrics", idx |-> 1, alerts |-> <<>>,
     water_quality_alerts |-> <<>>, health_risk_alerts |-> <<>>,
     local |-> <<>>]

\* (faulty variant) the new alerts put in front of the list
ExtendFront(alerts, more) == more \o alerts

\* list.extend, lines 137-138
Extend(alerts, more) == alerts \o more

\* line 171: check_water_quality_alerts returns; line 135 calls the next
ReturnMetrics(f) ==
    [f EXCEPT !.water_quality_alerts = f.local, !.local = <<>>,
              !.phase = "diseases", !.idx = 1]

\* line 202: check_health_risk_alerts returns; lines 137-138; next source
ReturnDiseases(f) ==
    [f EXCEPT !.health_risk_alerts = f.local,
              !.alerts = Extend(Extend(f.alerts, f.water_quality_alerts),
                                f.local),
              !.local = <<>>, !.si = f.si + 1,
              !.phase = "metrics", !.idx = 1]

\* the code that runs up to the next call of query_watsonx, or to line 140
RECURSIVE Advance(_)
Advance(f) ==
    IF f.si > Len(water_sources) THEN [f EXCEPT !.phase = "return"]
    ELSE LET source == water_sources[f.si] IN
         IF f.phase = "metrics"
         THEN IF f.idx > Len(source.metrics) THEN Advance(ReturnMetrics(f))
              ELSE IF MetricBranch(source.metrics[f.idx]) # "skip" THEN f
              ELSE Advance([f EXCEPT !.idx = f.idx + 1])
         ELSE IF f.idx > Len(source.diseases) THEN Advance(ReturnDiseases(f))
              ELSE IF DiseaseBranch(source.diseases[f.idx]) # "skip" THEN f
              ELSE Advance([f EXCEPT !.idx = f.idx + 1])

\* the prompt of the query_watsonx call the frame stands at (148/160/179/191)
PromptAt(f) ==
    LET source == water_sources[f.si] IN
    IF f.phase = "metrics" THEN MetricPrompt(source.metrics[f.idx])
    ELSE DiseasePrompt(source.diseases[f.idx])

\* lines 149-158, 161-170, 180-189, 192-201: build the Alert, append it
AppendAlert(f, ai_advice) ==
    LET source == water_sources[f.si]
        data == IF f.phase = "metrics"
                THEN MetricAlert(source, source.metrics[f.idx], ai_advice)
                ELSE DiseaseAlert(source, source.diseases[f.idx], ai_advice)
    IN  [f EXCEPT !.local = Append(f.local, Alert(data)),
                  !.idx = f.idx + 1]

\* get_water_source_by_id, line 109: next(..., None)
FirstWithId(source_id) ==
    LET hits == { i \in 1..Len(water_sources) :
                    water_sources[i].id = source_id }
    IN  IF hits = {} THEN 0
        ELSE CHOOSE i \in hits : \A j \in hits : i <= j

(***************************************************************************)
(* The state after start-up: the fixture is loaded, no request was served. *)
(* Requests do not share state, so the claims about one request are        *)
(* checked on one request over the larger data sets (Spec), and those      *)
(* about repeated requests on sequences of requests (SpecRepeat).          *)
(***************************************************************************)
Served(data, n) ==
    /\ water_sources = data
    /\ loaded = data
    /\ reqNo = 0
    /\ budget = n
    /\ handler = "none"
    /\ pc = "idle"
    /\ frame = NoFrame
    /\ prompt = <<>>
    /\ token = NoneVal
    /\ outbound = <<>>
    /\ token_reply = NoReply
    /\ completion_reply = NoReply
    /\ response = NoResponse
    /\ uuid_calls = 0

\* one request on any data set of at most MaxEntries entries
Init == \E data \in DataSets(1, MaxEntries) : Served(data, 1)

\* up to MaxRequests requests in a row, on a data set of at most
\* MaxRepeatEntries entries
InitRepeat ==
    \E data \in DataSets(1, MaxRepeatEntries) : Served(data, MaxRequests)

\* the framework dispatches the next request to the endpoint function h
Dispatch(h) ==
    /\ pc \in {"idle", "done"}
    /\ reqNo < budget
    /\ reqNo' = reqNo + 1
    /\ handler' = h
    /\ uuid_calls' = 0

\* a handler returns or raises without calling query_watsonx
Finish(result, out) ==
    /\ pc' = "done"
    /\ response' = result
    /\ prompt' = <<>>
    /\ token' = NoneVal
    /\ outbound' = out

\* (faulty variant) query_watsonx reusing the token an earlier call of the request obtained
EnterQueryCachedToken(p, out) ==
    IF out = <<>>
    THEN /\ pc' = "token"
         /\ prompt' = p
         /\ token' = NoneVal
         /\ outbound' = Append(out, TokenCall)
         /\ token_reply' = NoReply
         /\ completion_reply' = NoReply
         /\ response' = NoResponse
    ELSE /\ pc' = "completion"
         /\ prompt' = p
         /\ token' = "iam-token"
         /\ outbound' = Append(out, CompletionCall(p))
         /\ token_reply' = HttpReply(HTTP_OK, [access_token |-> "iam-token"])
         /\ completion_reply' = NoReply
         /\ response' = NoResponse

\* query_watsonx(p) is entered and sends the token exchange, lines 58 and 45
EnterQuery(p, out) ==
    /\ pc' = "token"
    /\ prompt' = p
    /\ token' = NoneVal
    /\ outbound' = Append(out, TokenCall)
    /\ token_reply' = NoReply
    /\ completion_reply' = NoReply
    /\ response' = NoResponse

\* get_alerts goes on from frame f: line 140, or the next advisory call
Proceed(f, out) ==
    /\ frame' = f
    /\ IF f.phase = "return"
       THEN Finish(Return(f.alerts), out)
       ELSE EnterQuery(PromptAt(f), out)

\* GET /water-sources, lines 102-104
get_water_sources ==
    /\ Dispatch("get_water_sources")
    /\ Finish(Return(water_sources), <<>>)
    /\ frame' = NoFrame
    /\ token_reply' = NoReply
    /\ completion_reply' = NoReply
    /\ UNCHANGED <<water_sources, loaded, budget>>

\* (faulty variant) get_water_source_by_id taking the source out of the list (list.pop)
get_water_source_by_id_pop(source_id) ==
    /\ Dispatch("get_water_source_by_id")
    /\ LET i == FirstWithId(source_id)
       IN  IF i = 0
           THEN /\ Finish(Raise(HTTPException(NOT_FOUND,
                                              <<"Water source not found">>)),
                          <<>>)
                /\ water_sources' = water_sources
           ELSE /\ Finish(Return(water_sources[i]), <<>>)
                /\ water_sources' =
                     SubSeq(water_sources, 1, i - 1)
                     \o SubSeq(water_sources, i + 1, Len(water_sources))
    /\ frame' = NoFrame
    /\ token_reply' = NoReply
    /\ completion_reply' = NoReply
    /\ UNCHANGED <<loaded, budget>>

\* GET /water-source/{source_id}, lines 107-112
get_water_source_by_id(source_id) ==
    /\ Dispatch("get_water_source_by_id")
    /\ LET i == FirstWithId(source_id)
       IN  IF i = 0
           THEN Finish(Raise(HTTPException(NOT_FOUND,
                                           <<"Water source not found">>)),
                       <<>>)
           ELSE Finish(Return(water_sources[i]), <<>>)
    /\ frame' = NoFrame
    /\ token_reply' = NoReply
    /\ completion_reply' = NoReply
    /\ UNCHANGED <<water_sources, loaded, budget>>

\* GET /alerts, lines 128-140, up to its first advisory call
get_alerts ==
    /\ Dispatch("get_alerts")
    /\ LET f == Advance(EnterAlerts)
       IN  /\ Proceed(f, <<>>)
           /\ IF f.phase = "return"
              THEN token_reply' = NoReply /\ completion_reply' = NoReply
              ELSE TRUE
    /\ UNCHANGED <<water_sources, loaded, budget>>

\* GET /water-quality-agent, lines 206-210, up to the token exchange
water_quality_agent(query) ==
    /\ Dispatch("water_quality_agent")
    /\ EnterQuery(query, <<>>)
    /\ frame' = NoFrame
    /\ UNCHANGED <<water_sources, loaded, budget>>

\* GET /health-risk-agent, lines 214-218, up to the token exchange
health_risk_agent(query) ==
    /\ Dispatch("health_risk_agent")
    /\ EnterQuery(query, <<>>)
    /\ frame' = NoFrame
    /\ UNCHANGED <<water_sources, loaded, budget>>

\* the token exchange of line 45 comes back: lines 47-53, then 58-84
TokenExchange(reply) ==
    /\ pc = "token"
    /\ token_reply' = reply
    /\ LET r == get_bearer_token(reply)
       IN  IF r.kind = "raise"
           THEN Finish(r, outbound)
           ELSE /\ pc' = "completion"
                /\ token' = r.value
                /\ outbound' = Append(outbound, CompletionCall(prompt))
                /\ UNCHANGED <<prompt, response>>
    /\ UNCHANGED <<water_sources, loaded, budget, reqNo, handler, frame, completion_reply,
                   uuid_calls>>

\* (faulty variant) a classifier that catches the failure and goes on to the next entry
CompletionFailsSkipped(reply) ==
    /\ pc = "completion"
    /\ query_watsonx_result(reply).kind = "raise"
    /\ IF handler = "get_alerts"
       THEN LET f == Advance([frame EXCEPT !.idx = frame.idx + 1])
            IN  /\ Proceed(f, outbound)
                /\ IF f.phase = "return"
                   THEN completion_reply' = reply /\ token_reply' = NoReply
                   ELSE TRUE
       ELSE /\ completion_reply' = reply
            /\ token_reply' = NoReply
            /\ Finish(query_watsonx_result(reply), outbound)
            /\ frame' = frame
    /\ UNCHANGED <<water_sources, loaded, budget, reqNo, handler, uuid_calls>>

\* the completion request of line 84 fails: lines 85, 96-98
CompletionFails(reply) ==
    /\ pc = "completion"
    /\ query_watsonx_result(reply).kind = "raise"
    /\ completion_reply' = reply
    /\ token_reply' = NoReply
    /\ Finish(query_watsonx_result(reply), outbound)
    /\ UNCHANGED <<water_sources, loaded, budget, reqNo, handler, frame, uuid_calls>>

\* an agent endpoint gets its answer: lines 85-95, then 209-210 or 217-218
AgentAnswer(reply) ==
    /\ pc = "completion"
    /\ handler \in {"water_quality_agent", "health_risk_agent"}
    /\ query_watsonx_result(reply).kind = "return"
    /\ completion_reply' = reply
    /\ token_reply' = NoReply
    /\ Finish(Return([response |-> query_watsonx_result(reply).value]),
              outbound)
    /\ UNCHANGED <<water_sources, loaded, budget, reqNo, handler, frame, uuid_calls>>

\* a classifier gets its advice: lines 85-95, the Alert is built and
\* appended, and get_alerts runs on to its next advisory call or its return
AlertAdvice(reply) ==
    /\ pc = "completion"
    /\ handler = "get_alerts"
    /\ query_watsonx_result(reply).kind = "return"
    /\ uuid_calls' = uuid_calls + 1
    /\ LET f == Advance(AppendAlert(frame, query_watsonx_result(reply).value))
       IN  /\ Proceed(f, outbound)
           /\ IF f.phase = "return"
              THEN completion_reply' = reply /\ token_reply' = NoReply
              ELSE TRUE
    /\ UNCHANGED <<water_sources, loaded, budget, reqNo, handler>>

Next ==
    \/ get_water_sources
    \/ \E source_id \in {"src-1", "src-2", "src-9"} :
           get_water_source_by_id(source_id)
    \/ get_alerts
    \/ \E query \in Queries : water_quality_agent(query)
    \/ \E query \in Queries : health_risk_agent(query)
    \/ \E reply \in TokenReplies : TokenExchange(reply)
    \/ \E reply \in CompletionReplies : CompletionFails(reply)
    \/ \E reply \in CompletionReplies : AgentAnswer(reply)
    \/ \E reply \in CompletionReplies : AlertAdvice(reply)

Spec == Init /\ [][Next]_vars

SpecRepeat == InitRepeat /\ [][Next]_vars

(***************************************************************************)
(* What the data set calls for, stated without the classifier's loops.     *)
(***************************************************************************)
QualifyingMetrics(source) ==
    { j \in 1..Len(source.metrics) :
        source.metrics[j].status \in {"danger", "warning"} }

QualifyingDiseases(source) ==
    { j \in 1..Len(source.diseases) :
        source.diseases[j].riskLevel \in {"high", "medium"} }

\* the place of j among the members of S, counted from 1
Rank(S, j) == Cardinality({ i \in S : i <= j })

\* <<s, 1, j>> is metric j of source s, <<s, 2, j>> its disease j
Qualifying ==
    UNION { ({s} \X {1} \X QualifyingMetrics(water_sources[s]))
            \cup ({s} \X {2} \X QualifyingDiseases(water_sources[s])) :
            s \in 1..Len(water_sources) }

Before(u, t) ==
    \/ u[1] < t[1]
    \/ u[1] = t[1] /\ u[2] < t[2]
    \/ u[1] = t[1] /\ u[2] = t[2] /\ u[3] < t[3]

\* the place of entry t in source order, metrics before diseases
Position(t) == Cardinality({ u \in Qualifying : Before(u, t) }) + 1

ExpectedLevel(t) ==
    LET source == water_sources[t[1]] IN
    IF t[2] = 1
    THEN IF source.metrics[t[3]].status = "danger" THEN "critical" ELSE "warning"
    ELSE IF source.diseases[t[3]].riskLevel = "high" THEN "critical" ELSE "warning"

ExpectedName(t) ==
    LET source == water_sources[t[1]] IN
    IF t[2] = 1 THEN source.metrics[t[3]].name ELSE source.diseases[t[3]].name

InAlerts == handler = "get_alerts"
AlertsReturned == InAlerts /\ pc = "done" /\ response.kind = "return"

\* the source whose check_water_quality_alerts result the frame holds, or 0
MetricsCheckedOf ==
    IF frame.phase = "diseases" THEN frame.si ELSE frame.si - 1

\* the source whose check_health_risk_alerts result the frame holds, or 0
DiseasesCheckedOf == frame.si - 1

(***************************************************************************)
(* C1: whenever check_water_quality_alerts has returned for a source, its  *)
(* result holds, in the metrics' order, exactly one alert per metric with  *)
(* status "danger" (level "critical") or "warning" (level "warning") and   *)
(* none for any other metric, and each alert carries that metric's name,   *)
(* value and unit and the source's name.                                   *)
(***************************************************************************)
C1_MetricAlerts ==
    (InAlerts /\ MetricsCheckedOf >= 1) =>
        LET source == water_sources[MetricsCheckedOf]
            q == QualifyingMetrics(source)
            result == frame.water_quality_alerts
        IN  /\ Len(result) = Cardinality(q)
            /\ \A j \in q :
                 LET metric == source.metrics[j]
                     alert == result[Rank(q, j)]
                 IN  /\ alert.level = IF metric.status = "danger"
                                      THEN "critical" ELSE "warning"
                     /\ alert.metric = metric.name
                     /\ alert.value = metric.value
                     /\ alert.unit = metric.unit
                     /\ alert.source = source.name

\* a source with a danger, a warning and a safe metric has been classified
C1_Witness ==
    /\ InAlerts /\ MetricsCheckedOf >= 1
    /\ LET source == water_sources[MetricsCheckedOf]
       IN  /\ { source.metrics[j].status : j \in 1..Len(source.metrics) }
                = MetricStatuses
           /\ Len(frame.water_quality_alerts) = 2

(***************************************************************************)
(* C2: whenever check_health_risk_alerts has returned for a source, its    *)
(* result holds, in the diseases' order, exactly one alert per disease     *)
(* with riskLevel "high" (level "critical") or "medium" (level "warning")  *)
(* and none for "low"; every such alert has value 0 and an empty unit.     *)
(***************************************************************************)
C2_DiseaseAlerts ==
    (InAlerts /\ DiseasesCheckedOf >= 1) =>
        LET source == water_sources[DiseasesCheckedOf]
            q == QualifyingDiseases(source)
            result == frame.health_risk_alerts
        IN  /\ Len(result) = Cardinality(q)
            /\ \A j \in q :
                 LET disease == source.diseases[j]
                     alert == result[Rank(q, j)]
                 IN  /\ alert.level = IF disease.riskLevel = "high"
                                      THEN "critical" ELSE "warning"
                     /\ alert.metric = disease.name
                     /\ alert.value = 0
                     /\ alert.unit = ""
                     /\ alert.source = source.name

\* a source with a high, a medium and a low disease has been classified
C2_Witness ==
    /\ InAlerts /\ DiseasesCheckedOf >= 1
    /\ LET source == water_sources[DiseasesCheckedOf]
       IN  /\ { source.diseases[j].riskLevel : j \in 1..Len(source.diseases) }
                = RiskLevels
           /\ Len(frame.health_risk_alerts) = 2

(***************************************************************************)
(* C3: a listing whose advisory calls all succeed returns exactly one      *)
(* alert per qualifying entry of the data set, K in all, in stored source  *)
(* order and, within a source, its metrics in their order before its       *)
(* diseases in theirs.                                                     *)
(***************************************************************************)
C3_AggregationOrder ==
    AlertsReturned =>
        /\ Len(response.value) = Cardinality(Qualifying)
        /\ \A t \in Qualifying :
             LET alert == response.value[Position(t)]
             IN  /\ alert.source = water_sources[t[1]].name
                 /\ alert.metric = ExpectedName(t)
                 /\ alert.level = ExpectedLevel(t)
                 /\ (alert.unit = "") <=> (t[2] = 2)

\* three alerts over two sources: metrics and a disease, of both levels
C3_Witness ==
    /\ AlertsReturned
    /\ Len(response.value) = 3
    /\ \E t, u, v \in Qualifying :
         /\ t[1] = 1 /\ u[1] = 2 /\ t[2] = 2 /\ u[2] = 1
         /\ v[1] = u[1] /\ v[2] = 2
    /\ { response.value[i].level : i \in 1..3 } = {"critical", "warning"}

(***************************************************************************)
(* Outbound failures, read off the replies.                                *)
(***************************************************************************)
TokenFailed ==
    \/ token_reply.kind = "exception"
    \/ token_reply.kind = "response" /\ token_reply.status_code # HTTP_OK

CompletionFailed ==
    \/ completion_reply.kind = "exception"
    \/ completion_reply.kind = "response"
         /\ completion_reply.status_code # HTTP_OK

LastCall == outbound[Len(outbound)]

(***************************************************************************)
(* C4: a failed advisory call ends the listing in an error that carries no *)
(* alert list, whatever had been built before; a finished listing is       *)
(* either an error or the complete list of K alerts.                       *)
(***************************************************************************)
C4_AllOrNothing ==
    InAlerts =>
        /\ (TokenFailed \/ CompletionFailed) =>
               /\ pc = "done"
               /\ response.kind = "raise"
               /\ "value" \notin DOMAIN response
        /\ pc = "done" =>
               \/ response.kind = "raise"
               \/ /\ response.kind = "return"
                  /\ Len(response.value) = Cardinality(Qualifying)
                  /\ ~TokenFailed /\ ~CompletionFailed

\* the failure came after alerts of an earlier source and of an earlier
\* entry of the same source had been built
C4_Witness ==
    /\ InAlerts /\ pc = "done" /\ response.kind = "raise"
    /\ frame.alerts # <<>>
    /\ frame.local # <<>>

(***************************************************************************)
(* C5: every failed outbound call of the advisory path, token exchange or  *)
(* completion request, network failure, timeout or non-success status,     *)
(* ends the request with an HTTPException of status 500 whose detail names *)
(* the failure (for a failed completion request, the underlying error),    *)
(* and no further call is made.                                            *)
(***************************************************************************)
C5_FailuresAreHTTPExceptions ==
    (TokenFailed \/ CompletionFailed) =>
        /\ pc = "done"
        /\ response.kind = "raise"
        /\ response.exc.type = "HTTPException"
        /\ response.exc.status_code = INTERNAL_SERVER_ERROR
        /\ response.exc.detail # <<>>
        /\ completion_reply.kind = "exception" =>
               response.exc.detail[Len(response.exc.detail)]
                   = completion_reply.exc

(***************************************************************************)
(* C6: a token exchange answered with a status other than 200 ends the     *)
(* request with the authentication error of status 500, the token exchange *)
(* being the last call sent (no second exchange, no completion request);   *)
(* a completion request is sent only right after a token exchange of the   *)
(* same invocation that was answered with status 200.                      *)
(***************************************************************************)
C6_NoCompletionWithoutToken ==
    /\ (token_reply.kind = "response" /\ token_reply.status_code # HTTP_OK) =>
           /\ pc = "done"
           /\ response = Raise(HTTPException(INTERNAL_SERVER_ERROR,
                                 <<"Failed to authenticate with WatsonX">>))
           /\ LastCall = TokenCall
           /\ Len(outbound) = 1 \/ outbound[Len(outbound) - 1].call = "completion"
    /\ \A i \in 1..Len(outbound) :
           outbound[i].call = "completion" =>
               i > 1 /\ outbound[i - 1].call = "token"
    /\ pc = "completion" =>
           /\ LastCall.call = "completion"
           /\ token_reply.kind = "response"
           /\ token_reply.status_code = HTTP_OK

\* the identity provider refused the key in the middle of a listing
C6_Witness ==
    /\ token_reply.kind = "response" /\ token_reply.status_code # HTTP_OK
    /\ pc = "done"
    /\ Len(outbound) = 3

(***************************************************************************)
(* C7: a completion answered with status 200 never makes query_watsonx     *)
(* raise; its result is "No response from AI." when the choices are absent *)
(* or empty, and the message content of the first choice when that choice  *)
(* has one.                                                                *)
(***************************************************************************)
C7_FallbackOnEmptyChoices ==
    (pc = "done" /\ completion_reply.kind = "response"
                 /\ completion_reply.status_code = HTTP_OK) =>
        /\ response.kind = "return"
        /\ LET body == completion_reply.json
               answer ==
                   IF InAlerts
                   THEN LET last == response.value[Len(response.value)]
                        IN  last.message[Len(last.message)]
                   ELSE response.value.response
               noChoices ==
                   \/ "choices" \notin DOMAIN body
                   \/ Len(body.choices) = 0
               firstHasContent ==
                   /\ ~noChoices
                   /\ "message" \in DOMAIN body.choices[1]
                   /\ "content" \in DOMAIN body.choices[1].message
           IN  /\ noChoices => answer = FALLBACK
               /\ firstHasContent => answer = body.choices[1].message.content

\* an agent endpoint answered from a completion with an empty choices list
C7_Witness ==
    /\ pc = "done"
    /\ handler = "water_quality_agent"
    /\ completion_reply = HttpReply(HTTP_OK, [choices |-> <<>>])
    /\ response = Return([response |-> FALLBACK])

\* the first of two choices is the one returned
C7_WitnessFirstChoice ==
    /\ pc = "done"
    /\ InAlerts
    /\ completion_reply.kind = "response"
    /\ completion_reply.status_code = HTTP_OK
    /\ "choices" \in DOMAIN completion_reply.json
    /\ Len(completion_reply.json.choices) = 2

Built ==
    IF AlertsReturned THEN response.value
    ELSE frame.alerts
         \o (IF frame.phase = "diseases" THEN frame.water_quality_alerts
             ELSE <<>>)
         \o frame.local

(***************************************************************************)
(* C8: the alerts one listing has built all carry an identifier, no two    *)
(* the same, and uuid4 was drawn exactly once per alert built.             *)
(***************************************************************************)
C8_UniqueIds ==
    InAlerts =>
        /\ \A i \in 1..Len(Built) : "id" \in DOMAIN Built[i]
        /\ \A i, j \in 1..Len(Built) : i # j => Built[i].id # Built[j].id
        /\ uuid_calls = Len(Built)

\* a listing returned three alerts
C8_Witness == AlertsReturned /\ Len(response.value) = 3

ExpectedPrompt(t) ==
    LET source == water_sources[t[1]] IN
    IF t[2] = 1 THEN MetricPrompt(source.metrics[t[3]])
    ELSE DiseasePrompt(source.diseases[t[3]])

(***************************************************************************)
(* C9: a listing that succeeds has sent exactly 2K outbound calls: for the *)
(* i-th alert, in the alerts' order, one token exchange and then one       *)
(* completion request with that entry's prompt.  This holds of every       *)
(* listing, also of a repeated one and of entries with the same prompt.    *)
(***************************************************************************)
C9_TwoCallsPerEntry ==
    AlertsReturned =>
        /\ Len(outbound) = 2 * Cardinality(Qualifying)
        /\ \A t \in Qualifying :
             /\ outbound[2 * Position(t) - 1] = TokenCall
             /\ outbound[2 * Position(t)] = CompletionCall(ExpectedPrompt(t))

\* a second listing of data in which two entries have the same prompt
C9_Witness ==
    /\ AlertsReturned
    /\ reqNo = 2
    /\ \E i, j \in 1..Len(outbound) :
         i < j /\ outbound[i].call = "completion" /\ outbound[i] = outbound[j]

Held ==
    frame.alerts \o frame.water_quality_alerts \o frame.health_risk_alerts
    \o frame.local \o (IF AlertsReturned THEN response.value ELSE <<>>)

(***************************************************************************)
(* C10: no handler changes the process-wide water-source data, and every   *)
(* alert a listing holds or returns was built by that listing itself.      *)
(***************************************************************************)
C10_ReadOnlyData ==
    /\ water_sources = loaded
    /\ InAlerts => \A i \in 1..Len(Held) : Held[i].id[1] = reqNo

\* a second request, a listing, returned alerts
C10_Witness ==
    /\ AlertsReturned
    /\ reqNo = 2
    /\ Len(response.value) >= 2

====
